---- MODULE Spec2Model ----
(***************************************************************************)
(* A model of path-scanner: the action executor and job registry of        *)
(* app/main.py (app/api.py is the same code without the scheduler), and    *)
(* the path resolution, tree walk, record writing, retention cleanup and   *)
(* upload throttle of app/scanner.py.                                      *)
(***************************************************************************)
EXTENDS Integers, Sequences, FiniteSets, TLC

\* ------------------------------------------------------------------ bounds
\* Number of POST /actions/{name} requests (one job id each).
MaxJobs == 2
\* Number of times the cron trigger of the scheduler fires.
MaxSchedRuns == 1

JobIds == 1..MaxJobs

\* ------------------------------------------------- executor: vocabulary
\* main.py 84-88
\* (ACTIONS is a reserved word of TLA+)
ActionNames == {"scan", "cleanup", "upload_latest"}
\* main.py 161: payload.get("mode", "async")
Modes == {"sync", "async"}

\* No exception is pending / no job has been recorded / the lock is free.
NoExc == "<none>"
NoHolder == 0
NoJob == [id |-> 0, action |-> "", status |-> "absent", error |-> ""]

\* Messages of the exceptions an action body can raise (str(exc)).
\* scan_task: RuntimeError of scanner.py 237-242, OSError of a failed write.
ScanFailures == {"path does not exist", "write failed"}
\* cleanup_old_outputs: OSError of iterdir/stat/unlink.
CleanupFailures == {"unlink failed"}
\* action_upload_latest: KeyError of config["output"]["latest_filename"].
UploadFailures == {"'latest_filename'"}

VARIABLES
    jobs,       \* main.py 33: job id -> job record (NoJob: id not in the dict)
    req,        \* per job id, the request handler running trigger_action
    run,        \* per job id, the position of run_action(name, fn, job_id)
    exc,        \* per job id, the message of the exception the body raised
    scan_lock,  \* main.py 32: the job id holding scan_lock, or NoHolder
    sched,      \* the scheduler's job path_scan_job: position and runs so far
    paths_cfg,  \* config["paths"]: the configured paths, each a list of segments
    roots,      \* scan_task's roots: the RootSet, once resolved
    pstage,     \* path resolution: "off", "input" or "resolved"
    tree,       \* the directory tree below walk_root: directory -> its listing
    walk_root,  \* the root given to scan_root
    follow_symlinks,    \* scan_options.follow_symlinks
    rows,       \* the records scan_root yielded
    wstage,     \* tree walk: "off", "tree" or "walked"
    config,     \* load_config(CONFIG_PATH), what the pipeline reads of it
    now,        \* the wall clock, in seconds
    fs,         \* the scanned file system: root -> its tree (Missing: none)
    out_dir,    \* config["output"]["directory"]: whether it exists, its files
    loc,        \* per runner, the locals of scan_task
    cleanup_call    \* one call cleanup_old_outputs(output_dir, keep_days)

execVars == <<jobs, req, run, exc, scan_lock, sched>>
pathVars == <<paths_cfg, roots, pstage>>
walkVars == <<tree, walk_root, follow_symlinks, rows, wstage>>
pipeVars == <<config, now, fs, out_dir, loc>>
vars == <<execVars, pathVars, walkVars, pipeVars, cleanup_call>>
\* What the executor's steps leave alone.
nonExec == <<pathVars, walkVars, pipeVars, cleanup_call>>

\* ------------------------------------------------------- executor: code
\* main.py 44-51 (updated_at, a wall-clock stamp no code reads, is left out)
record_job(js, job_id, name, status, error) ==
    [js EXCEPT ![job_id] =
        [id |-> job_id, action |-> name, status |-> status, error |-> error]]

\* A lock whose acquire never blocks.
LockFreeAlways(lock) == TRUE

\* scan_lock.acquire() of `with scan_lock:` (main.py 65) blocks until free.
LockFree(lock) == lock = NoHolder

\* The first position of fn() for each entry of the ACTIONS dict.
BodyEntry(name) ==
    CASE name = "scan" -> "acquire"
      [] name = "cleanup" -> "action_cleanup"
      [] name = "upload_latest" -> "action_upload_latest"

\* run_action's continuation after fn(): main.py 58 or 59-61.
AfterBody(e) == IF e = NoExc THEN "record_success" ELSE "record_error"

InitExec ==
    /\ jobs = [j \in JobIds |-> NoJob]
    /\ req = [j \in JobIds |-> [pc |-> "none", name |-> "", mode |-> "", resp |-> ""]]
    /\ run = [j \in JobIds |-> "idle"]
    /\ exc = [j \in JobIds |-> NoExc]
    /\ scan_lock = NoHolder
    /\ sched = [pc |-> "idle", runs |-> 0]

\* The path resolver and the tree walker when a specification leaves them out.
PathsOff == paths_cfg = <<>> /\ roots = <<>> /\ pstage = "off"
WalkOff ==
    /\ tree = <<>> /\ walk_root = <<>> /\ follow_symlinks = FALSE
    /\ rows = <<>> /\ wstage = "off"

\* The step-by-step pipeline when a specification leaves it out.
PipeOff ==
    /\ config = <<>> /\ now = 0 /\ fs = <<>>
    /\ out_dir = <<>> /\ loc = <<>>

\* The single cleanup call when a specification leaves it out.
CleanupOff == cleanup_call = <<>>

Init == InitExec /\ PathsOff /\ WalkOff /\ PipeOff /\ CleanupOff

\* uuid.uuid4().hex: an id no earlier request has been given.
FreshId(j) == req[j].pc = "none" /\ \A i \in JobIds : i < j => req[i].pc # "none"

\* trigger_action, main.py 146-174: a known action, a fresh job id; mode sync
\* enters run_action inline, mode async starts the thread and goes on.
trigger_action(j, name, mode) ==
    /\ FreshId(j)
    /\ req' = [req EXCEPT ![j] =
                 [pc |-> IF mode = "sync" THEN "run_action" ELSE "record_queued",
                  name |-> name, mode |-> mode, resp |-> ""]]
    /\ run' = [run EXCEPT ![j] = "record_running"]
    /\ UNCHANGED <<jobs, exc, scan_lock, sched>> /\ UNCHANGED nonExec

\* trigger_action, main.py 175-176: after thread.start(), record "queued"
\* and answer {id, status: queued}.
trigger_record_queued(j) ==
    /\ req[j].pc = "record_queued"
    /\ jobs' = record_job(jobs, j, req[j].name, "queued", "")
    /\ req' = [req EXCEPT ![j].pc = "returned", ![j].resp = "queued"]
    /\ UNCHANGED <<run, exc, scan_lock, sched>> /\ UNCHANGED nonExec

\* A synchronous trigger that answers without waiting for run_action.
trigger_return_early(j) ==
    /\ req[j].pc = "run_action"
    /\ req' = [req EXCEPT ![j].pc = "returned", ![j].resp = jobs[j].status]
    /\ UNCHANGED <<jobs, run, exc, scan_lock, sched>> /\ UNCHANGED nonExec

\* trigger_action, main.py 166-167: run_action has returned; answer jobs[job_id].
trigger_return_sync(j) ==
    /\ req[j].pc = "run_action"
    /\ run[j] = "done"
    /\ req' = [req EXCEPT ![j].pc = "returned", ![j].resp = jobs[j].status]
    /\ UNCHANGED <<jobs, run, exc, scan_lock, sched>> /\ UNCHANGED nonExec

\* run_action, main.py 56-57: record "running", then call fn().
run_record_running(j) ==
    /\ run[j] = "record_running"
    /\ jobs' = record_job(jobs, j, req[j].name, "running", "")
    /\ run' = [run EXCEPT ![j] = BodyEntry(req[j].name)]
    /\ UNCHANGED <<req, exc, scan_lock, sched>> /\ UNCHANGED nonExec

\* action_scan, main.py 65: enter `with scan_lock`.
action_scan_acquire(j) ==
    /\ run[j] = "acquire"
    /\ LockFree(scan_lock)
    /\ scan_lock' = j
    /\ run' = [run EXCEPT ![j] = "scan_task"]
    /\ UNCHANGED <<jobs, req, exc, sched>> /\ UNCHANGED nonExec

\* action_scan, main.py 66: scan_task(config) returns or raises.
action_scan_task(j) ==
    /\ run[j] = "scan_task"
    /\ \E e \in ScanFailures \cup {NoExc} : exc' = [exc EXCEPT ![j] = e]
    /\ run' = [run EXCEPT ![j] = "release"]
    /\ UNCHANGED <<jobs, req, scan_lock, sched>> /\ UNCHANGED nonExec

\* A lock that is released when scan_task returns and kept when it raises.
action_scan_release_on_return(j) ==
    /\ run[j] = "release"
    /\ scan_lock' = IF exc[j] = NoExc THEN NoHolder ELSE scan_lock
    /\ run' = [run EXCEPT ![j] = AfterBody(exc[j])]
    /\ UNCHANGED <<jobs, req, exc, sched>> /\ UNCHANGED nonExec

\* action_scan, main.py 65: leaving `with scan_lock`, by return or by raise.
action_scan_release(j) ==
    /\ run[j] = "release"
    /\ scan_lock' = NoHolder
    /\ run' = [run EXCEPT ![j] = AfterBody(exc[j])]
    /\ UNCHANGED <<jobs, req, exc, sched>> /\ UNCHANGED nonExec

\* A cleanup that waits until no scan holds scan_lock.
action_cleanup_after_scan(j) ==
    /\ run[j] = "action_cleanup"
    /\ LockFree(scan_lock)
    /\ \E e \in CleanupFailures \cup {NoExc} :
          /\ exc' = [exc EXCEPT ![j] = e]
          /\ run' = [run EXCEPT ![j] = AfterBody(e)]
    /\ UNCHANGED <<jobs, req, scan_lock, sched>> /\ UNCHANGED nonExec

\* action_cleanup, main.py 69-75: returns or raises.
action_cleanup(j) ==
    /\ run[j] = "action_cleanup"
    /\ \E e \in CleanupFailures \cup {NoExc} :
          /\ exc' = [exc EXCEPT ![j] = e]
          /\ run' = [run EXCEPT ![j] = AfterBody(e)]
    /\ UNCHANGED <<jobs, req, scan_lock, sched>> /\ UNCHANGED nonExec

\* action_upload_latest, main.py 78-81: returns or raises.
action_upload_latest(j) ==
    /\ run[j] = "action_upload_latest"
    /\ \E e \in UploadFailures \cup {NoExc} :
          /\ exc' = [exc EXCEPT ![j] = e]
          /\ run' = [run EXCEPT ![j] = AfterBody(e)]
    /\ UNCHANGED <<jobs, req, scan_lock, sched>> /\ UNCHANGED nonExec

\* run_action, main.py 58: fn() returned.
run_record_success(j) ==
    /\ run[j] = "record_success"
    /\ jobs' = record_job(jobs, j, req[j].name, "success", "")
    /\ run' = [run EXCEPT ![j] = "done"]
    /\ UNCHANGED <<req, exc, scan_lock, sched>> /\ UNCHANGED nonExec

\* run_action, main.py 59-61: fn() raised; record str(exc).
run_record_error(j) ==
    /\ run[j] = "record_error"
    /\ jobs' = record_job(jobs, j, req[j].name, "error", exc[j])
    /\ run' = [run EXCEPT ![j] = "done"]
    /\ UNCHANGED <<req, exc, scan_lock, sched>> /\ UNCHANGED nonExec

\* start_scheduler, main.py 96-102: the cron trigger fires and the scheduler's
\* worker calls scan_task(config) itself (one instance at a time).
sched_fire ==
    /\ sched.pc = "idle"
    /\ sched.runs < MaxSchedRuns
    /\ sched' = [pc |-> "scan_task", runs |-> sched.runs + 1]
    /\ UNCHANGED <<jobs, req, run, exc, scan_lock>> /\ UNCHANGED nonExec

\* The scheduler's scan_task(config) returns or raises (the scheduler library
\* logs what it raises).
sched_scan_task ==
    /\ sched.pc = "scan_task"
    /\ sched' = [sched EXCEPT !.pc = "idle"]
    /\ UNCHANGED <<jobs, req, run, exc, scan_lock>> /\ UNCHANGED nonExec

Next ==
    \/ \E j \in JobIds, name \in ActionNames, mode \in Modes : trigger_action(j, name, mode)
    \/ \E j \in JobIds : trigger_record_queued(j)
    \/ \E j \in JobIds : trigger_return_sync(j)
    \/ \E j \in JobIds : run_record_running(j)
    \/ \E j \in JobIds : action_scan_acquire(j)
    \/ \E j \in JobIds : action_scan_task(j)
    \/ \E j \in JobIds : action_scan_release(j)
    \/ \E j \in JobIds : action_cleanup(j)
    \/ \E j \in JobIds : action_upload_latest(j)
    \/ \E j \in JobIds : run_record_success(j)
    \/ \E j \in JobIds : run_record_error(j)
    \/ sched_fire
    \/ sched_scan_task

Spec == Init /\ [][Next]_vars

\* ------------------------------------------------ executor: properties
Terminal == {"success", "error"}

\* One step of a job's status in the registry, as the lifecycle allows it:
\* [queued]?, running, (success | error), each written once.
StatusStep(old, new) ==
    \/ new = old
    \/ old = "absent" /\ new \in {"queued", "running"}
    \/ old = "queued" /\ new = "running"
    \/ old = "running" /\ new \in Terminal

\* C1: for every job id the registry's status goes through an optional
\* "queued", then "running", then one of "success" / "error": "queued" is never
\* written after "running", and a terminal status never changes again.
C1_StatusSequence ==
    [][\A j \in JobIds : StatusStep(jobs[j].status, jobs'[j].status)]_vars

\* Nothing is left to run for job j: the handler has answered and run_action
\* has returned, so no later step writes jobs[j].
Finished(j) == req[j].pc = "returned" /\ run[j] = "done"

\* C2: every asynchronously triggered job whose action body has terminated
\* ends up shown with a terminal status: once the request and the background
\* thread are both through, the registry shows "success" or "error" (a job
\* shown "queued" in such a state stays "queued" for ever).
C2_AsyncEndsTerminal ==
    \A j \in JobIds :
        (req[j].mode = "async" /\ Finished(j)) => jobs[j].status \in Terminal

\* The triggered jobs that are inside scan_task.
InPipeline == {j \in JobIds : run[j] = "scan_task"}

\* C3: at most one triggered scan job is inside the scan pipeline at a time.
C3_ScanMutex == Cardinality(InPipeline) <= 1

\* C3's case: one scan job is inside the pipeline while another scan job has
\* been dispatched and waits for scan_lock.
C3_Witness ==
    \E i, j \in JobIds :
        /\ i # j
        /\ run[i] = "scan_task" /\ scan_lock = i
        /\ run[j] = "acquire"

\* C4: a scan run started by the scheduler and a scan run triggered through
\* the control surface are never inside the scan pipeline at the same time.
C4_SchedulerScanMutex == ~(sched.pc = "scan_task" /\ InPipeline # {})

\* C5: for every trigger, sync or async, the executor catches what the body
\* raises (run_action goes on to record it; nothing reaches the trigger), and
\* once the trigger is over the job's record shows what the body did: status "error" with the failure's message
\* when it raised, status "success" with an empty message when it returned.
C5_OutcomeRecorded ==
    \A j \in JobIds :
        Finished(j) =>
            jobs[j] = [id |-> j, action |-> req[j].name,
                       status |-> IF exc[j] = NoExc THEN "success" ELSE "error",
                       error |-> IF exc[j] = NoExc THEN "" ELSE exc[j]]

\* ------------------------------------------------------ PathResolver
\* A name is a sequence of characters, a path the sequence of its segments
\* below "/". Code points of the characters the names use.
Ord(c) ==
    CASE c = "-" -> 45 [] c = "." -> 46 [] c = "/" -> 47 [] c = "@" -> 64
      [] c = "D" -> 68 [] c = "a" -> 97 [] c = "b" -> 98 [] c = "d" -> 100
      [] c = "e" -> 101 [] c = "h" -> 104 [] c = "i" -> 105 [] c = "r" -> 114
      [] c = "s" -> 115 [] c = "t" -> 116 [] c = "u" -> 117 [] c = "x" -> 120

CharLess(c, d) == Ord(c) < Ord(d)

\* m < n for two str: Python compares them code point by code point, a
\* proper prefix being the smaller.
RECURSIVE NameLess(_, _)
NameLess(m, n) ==
    IF n = <<>> THEN FALSE
    ELSE IF m = <<>> THEN TRUE
    ELSE IF CharLess(Head(m), Head(n)) THEN TRUE
    ELSE IF CharLess(Head(n), Head(m)) THEN FALSE
    ELSE NameLess(Tail(m), Tail(n))

\* p < q for two lists of str, compared element by element in the same way.
RECURSIVE PartsLess(_, _)
PartsLess(p, q) ==
    IF q = <<>> THEN FALSE
    ELSE IF p = <<>> THEN TRUE
    ELSE IF NameLess(Head(p), Head(q)) THEN TRUE
    ELSE IF NameLess(Head(q), Head(p)) THEN FALSE
    ELSE PartsLess(Tail(p), Tail(q))

\* str(path): "/" and the segments joined by "/".
RECURSIVE PathStr(_)
PathStr(p) ==
    IF p = <<>> THEN <<"/">>
    ELSE IF Len(p) = 1 THEN <<"/">> \o p[1]
    ELSE PathStr(SubSeq(p, 1, Len(p) - 1)) \o <<"/">> \o p[Len(p)]

\* Path.__lt__: the paths' parts compared as lists of str.
PathLess(p, q) == PartsLess(p, q)

Dot == <<".">>
DotDot == <<".", ".">>

\* Path(p).resolve() of an absolute path without symbolic links: "." is
\* dropped and ".." steps back to the parent ("/" is its own parent).
RECURSIVE resolve_from(_, _)
resolve_from(acc, rest) ==
    IF rest = <<>> THEN acc
    ELSE LET seg == Head(rest) IN
         IF seg = Dot THEN resolve_from(acc, Tail(rest))
         ELSE IF seg = DotDot
              THEN resolve_from(IF acc = <<>> THEN acc ELSE SubSeq(acc, 1, Len(acc) - 1),
                                Tail(rest))
              ELSE resolve_from(Append(acc, seg), Tail(rest))

resolve(p) == resolve_from(<<>>, p)

\* scanner.py 51-52
normalize_paths(paths) == [i \in DOMAIN paths |-> resolve(paths[i])]

\* str.startswith on the paths' strings.
str_startswith(p, r) ==
    LET sp == PathStr(p)
        sr == PathStr(r)
    IN Len(sr) <= Len(sp) /\ SubSeq(sp, 1, Len(sr)) = sr

\* Path.is_relative_to: r's parts are the first parts of p.
is_relative_to(p, r) == Len(r) <= Len(p) /\ SubSeq(p, 1, Len(r)) = r

\* p put into the sorted list s, after the members not greater than it.
RECURSIVE insert_sorted(_, _)
insert_sorted(p, s) ==
    IF s = <<>> THEN <<p>>
    ELSE IF PathLess(p, Head(s)) THEN <<p>> \o s
    ELSE <<Head(s)>> \o insert_sorted(p, Tail(s))

RECURSIVE sort_paths(_)
sort_paths(paths) ==
    IF paths = <<>> THEN <<>>
    ELSE insert_sorted(paths[Len(paths)], sort_paths(SubSeq(paths, 1, Len(paths) - 1)))

\* The paths in the order given.
unsorted(paths) == paths

\* sorted(paths), scanner.py 57
sorted(paths) == sort_paths(paths)

\* The loop of scanner.py 57-59 over the paths still to visit.
RECURSIVE dedup_loop(_, _)
dedup_loop(rs, todo) ==
    IF todo = <<>> THEN rs
    ELSE LET p == Head(todo) IN
         dedup_loop(IF \E i \in DOMAIN rs : is_relative_to(p, rs[i])
                    THEN rs ELSE Append(rs, p),
                    Tail(todo))

\* scanner.py 55-60
deduplicate_parent_paths(paths) == dedup_loop(<<>>, sorted(paths))

\* Configured paths: a parent, nested paths, siblings whose names share a
\* string prefix, a duplicate by "." and a path through "..".
NData == <<"d", "a", "t", "a">>
NA == <<"a">>
NAB == <<"a", "b">>
NADashB == <<"a", "-", "b">>
NB == <<"b">>
NSub == <<"s", "u", "b">>
ConfiguredPaths ==
    { <<NData>>, <<NData, NA>>, <<NData, NA, NSub>>, <<NData, NAB>>,
      <<NData, NADashB>>, <<NData, NB>>, <<NData, NA, DotDot, NB>>,
      <<NData, Dot, NA>> }

\* Length of config["paths"].
MaxPaths == 3

RECURSIVE ListsUpTo(_, _)
ListsUpTo(S, n) ==
    IF n = 0 THEN {<<>>}
    ELSE LET shorter == ListsUpTo(S, n - 1) IN
         shorter \cup {Append(l, x) : l \in {m \in shorter : Len(m) = n - 1}, x \in S}

InitPaths ==
    /\ paths_cfg \in ListsUpTo(ConfiguredPaths, MaxPaths)
    /\ roots = <<>>
    /\ pstage = "input"
    /\ InitExec /\ WalkOff /\ PipeOff /\ CleanupOff

\* scan_task, scanner.py 229-230
resolve_roots ==
    /\ pstage = "input"
    /\ roots' = deduplicate_parent_paths(normalize_paths(paths_cfg))
    /\ pstage' = "resolved"
    /\ UNCHANGED <<paths_cfg, execVars, walkVars, pipeVars, cleanup_call>>

NextPaths == resolve_roots

SpecPaths == InitPaths /\ [][NextPaths]_vars

\* q is p or below p in the path tree.
AtOrBelow(q, p) ==
    /\ Len(p) <= Len(q)
    /\ \A i \in 1..Len(p) : q[i] = p[i]

\* The resolved inputs of one run.
Inputs == {resolve(paths_cfg[i]) : i \in DOMAIN paths_cfg}
RootSet == {roots[i] : i \in DOMAIN roots}

\* C6: the RootSet holds no path twice and no two members one of which is a
\* segment-wise ancestor of the other.
C6_NoNestedRoots ==
    pstage = "resolved" =>
        \A i, k \in DOMAIN roots : i # k => ~AtOrBelow(roots[i], roots[k])

\* C6's case: the input holds a path twice (once through "."), a nested
\* pair given child first, and two siblings sharing a string prefix.
C6_Witness ==
    /\ pstage = "resolved"
    /\ Len(paths_cfg) = MaxPaths
    /\ \E i, k \in DOMAIN paths_cfg :
          /\ i < k
          /\ resolve(paths_cfg[i]) # resolve(paths_cfg[k])
          /\ AtOrBelow(resolve(paths_cfg[i]), resolve(paths_cfg[k]))
    /\ <<NData, NA>> \in RootSet /\ <<NData, NAB>> \in RootSet

\* C7: every input path is a member of the RootSet or below one, every
\* member is an input path, and the RootSet is the least such subset: its
\* members are the inputs that have no other input above them.
C7_RootsCoverInputs ==
    pstage = "resolved" =>
        /\ \A p \in Inputs : \E r \in RootSet : AtOrBelow(p, r)
        /\ RootSet \subseteq Inputs
        /\ RootSet = {p \in Inputs : \A q \in Inputs : AtOrBelow(p, q) => q = p}

\* C7's case: an input below another input is dropped while the sibling
\* whose name extends the kept root's name is kept.
C7_Witness ==
    /\ pstage = "resolved"
    /\ <<NData, NA, NSub>> \in Inputs /\ <<NData, NA, NSub>> \notin RootSet
    /\ <<NData, NA>> \in RootSet
    /\ <<NData, NAB>> \in RootSet

\* -------------------------------------------------------- TreeScanner
NX == <<"x">>
NHidden == <<".", "h">>
NEaDir == <<"@", "e", "a", "D", "i", "r">>
WalkNames == {NX, NHidden, NEaDir}
\* A plain file, a directory, a symbolic link to a directory.
Kinds == {"file", "dir", "link"}
WalkRoots == { <<NData>>, <<NData, NHidden>> }

\* Number of entries below the root.
MaxEntries == 3

\* str.startswith(".")
startswith_dot(n) == n # <<>> /\ Head(n) = "."

\* A filter that keeps every directory.
keep_every_dir(d) == TRUE

\* scanner.py 72-75: the directories kept in dirnames.
keep_dir(d) == ~(startswith_dot(d) \/ d = NEaDir)

\* scanner.py 88-89: the files passed over.
skip_file(f) == startswith_dot(f) \/ f = NEaDir

\* scanner.py 79-84 and 90-95: one record; dirpath is below root.
record(type, root, dirpath, n) ==
    [type |-> type,
     root_path |-> PathStr(root),
     full_path |-> PathStr(root \o dirpath \o <<n>>),
     name |-> n]

\* scanner.py 65-95: os.walk top-down from dirpath, and the records yielded on
\* the way. t[d] is the listing of directory d in the order the system
\* gives it; os.walk puts a link to a directory among the dirnames and walks
\* into it only when followlinks is set.
RECURSIVE walk(_, _, _, _)
RECURSIVE walk_into(_, _, _, _, _)
walk(t, root, dirpath, follow) ==
    LET listing == t[dirpath]
        dirs == SelectSeq(listing, LAMBDA e : e.kind \in {"dir", "link"})
        nondirs == SelectSeq(listing, LAMBDA e : e.kind = "file")
        dirnames == SelectSeq(dirs, LAMBDA e : keep_dir(e.name))
        filenames == SelectSeq(nondirs, LAMBDA e : ~skip_file(e.name))
    IN [i \in 1..Len(dirnames) |-> record("dir", root, dirpath, dirnames[i].name)]
       \o [i \in 1..Len(filenames) |-> record("file", root, dirpath, filenames[i].name)]
       \o walk_into(t, root, dirpath, dirnames, follow)
walk_into(t, root, dirpath, dirnames, follow) ==
    IF dirnames = <<>> THEN <<>>
    ELSE LET d == Head(dirnames) IN
         (IF follow \/ d.kind # "link"
          THEN walk(t, root, dirpath \o <<d.name>>, follow)
          ELSE <<>>)
         \o walk_into(t, root, dirpath, Tail(dirnames), follow)

scan_root(t, root, follow) == walk(t, root, <<>>, follow)

\* The entries of the tree, as paths below the root.
EntryCount(t) ==
    LET RECURSIVE Sum(_)
        Sum(D) == IF D = {} THEN 0
                  ELSE LET d == CHOOSE x \in D : TRUE IN Len(t[d]) + Sum(D \ {d})
    IN Sum(DOMAIN t)

InitWalk ==
    /\ tree = [d \in {<<>>} |-> <<>>]
    /\ walk_root \in WalkRoots
    /\ follow_symlinks \in BOOLEAN
    /\ rows = <<>>
    /\ wstage = "tree"
    /\ InitExec /\ PathsOff /\ PipeOff /\ CleanupOff

\* The file system gains an entry n of kind k in directory d.
create_entry(d, n, k) ==
    /\ wstage = "tree"
    /\ d \in DOMAIN tree
    /\ EntryCount(tree) < MaxEntries
    /\ \A i \in DOMAIN tree[d] : tree[d][i].name # n
    /\ tree' = [x \in DOMAIN tree \cup (IF k = "file" THEN {} ELSE {d \o <<n>>}) |->
                  IF x = d THEN Append(tree[d], [name |-> n, kind |-> k])
                  ELSE IF x \in DOMAIN tree THEN tree[x] ELSE <<>>]
    /\ UNCHANGED <<walk_root, follow_symlinks, rows, wstage, execVars, pathVars, pipeVars, cleanup_call>>

\* scan_task, scanner.py 244-246: rows.extend(scan_root(root, follow_symlinks))
walk_root_once ==
    /\ wstage = "tree"
    /\ rows' = scan_root(tree, walk_root, follow_symlinks)
    /\ wstage' = "walked"
    /\ UNCHANGED <<tree, walk_root, follow_symlinks, execVars, pathVars, pipeVars, cleanup_call>>

NextWalk ==
    \/ \E d \in DOMAIN tree, n \in WalkNames, k \in Kinds : create_entry(d, n, k)
    \/ walk_root_once

SpecWalk == InitWalk /\ [][NextWalk]_vars

\* The names that are filtered: hidden ones and the reserved directory name.
Filtered(n) == Head(n) = "." \/ n = NEaDir

\* The paths, relative to the root, of the entries of the tree.
EntryPaths ==
    UNION {{d \o <<tree[d][i].name>> : i \in DOMAIN tree[d]} : d \in DOMAIN tree}

\* C8: every record of scan_root for root R has root_path R, a full_path
\* that is R followed by one or more segments naming an entry of the tree,
\* a name that is the last of these segments, and no segment below R (the
\* name included) that starts with "." or equals "@eaDir".
C8_RecordsBelowRootUnfiltered ==
    wstage = "walked" =>
        \A i \in DOMAIN rows :
            /\ rows[i].root_path = PathStr(walk_root)
            /\ \E rel \in EntryPaths :
                  /\ rows[i].full_path = PathStr(walk_root) \o <<"/">> \o Tail(PathStr(rel))
                  /\ rows[i].name = rel[Len(rel)]
                  /\ \A k \in DOMAIN rel : ~Filtered(rel[k])

\* C8's case: the walk has emitted a record while the tree holds a filtered
\* directory with a visible entry inside, which it has passed over.
C8_Witness ==
    /\ wstage = "walked"
    /\ rows # <<>>
    /\ \E rel \in EntryPaths :
          Len(rel) = 2 /\ Filtered(rel[1]) /\ ~Filtered(rel[2])

\* ---------------------------------------- the scan pipeline, step by step
\* The runners of the pipeline: the jobs' run_action and the scheduler's
\* worker, which has no job id.
Sched == 0
Runners == JobIds \cup {Sched}

\* Number of POST requests while the pipeline is followed step by step.
MaxPipeJobs == 1
\* The clock runs over the days 0..MaxDays and, within a day, over the
\* seconds 0..MaxSecs.
MaxDays == 1
MaxSecs == 1
\* Number of entries the scanned roots gain.
MaxFsEntries == 1

\* timedelta(days=1) in seconds; scanner.py 159
DaySeconds == 86400

\* scanner.py 22-23
LATEST_CSV_NAME == <<"s", "c", "a", "n", "_", "l", "a", "t", "e", "s", "t", ".", "c", "s", "v">>
OSS_UPLOAD_MARKER == <<".", "l", "a", "s", "t", "_", "o", "s", "s", "_", "u", "p", "l", "o", "a", "d">>
\* A latest_filename that has the form of a dated output name.
DatedLikeName == <<"s", "c", "a", "n", "_", "0", "0", "0", "0", "0", "0", "0", "0", "_", "0", "0", "0", "0", "0", "0", ".", "c", "s", "v">>

\* config["paths"]: the paths of one deployment.
PipePaths == << <<NData, NA>>, <<NData, NA, NSub>>, <<NData, NB>> >>

\* load_config: the parts of config.json the pipeline reads. retention_days,
\* upload_interval_days: 0 is "not set".
Configs ==
    [paths : {PipePaths},
     latest_filename : {LATEST_CSV_NAME, DatedLikeName},
     retention_days : {0, 1},
     oss_enabled : BOOLEAN,
     upload_interval_days : {0, 1},
     ignore_missing_path : BOOLEAN,
     follow_symlinks : {FALSE}]

\* An empty directory; Missing is no directory at all.
EmptyDir == [d \in {<<>>} |-> <<>>]
Missing == <<>>

\* The locals of scan_task in one runner.
NoLocals == [rows |-> <<>>, output_file |-> <<>>, buf |-> <<>>]

Digits == <<"0", "1", "2", "3", "4", "5", "6", "7", "8", "9">>
IsDigit(c) == \E i \in DOMAIN Digits : Digits[i] = c
TwoDigits(n) == <<Digits[(n \div 10) + 1], Digits[(n % 10) + 1]>>

\* time.strftime("%Y%m%d_%H%M%S") at clock t, the clock's 0 being
\* 2024-01-01 00:00:00 local time (t stays within January).
strftime(t) ==
    <<"2", "0", "2", "4", "0", "1">> \o TwoDigits(1 + t \div DaySeconds) \o <<"_">>
    \o TwoDigits((t % DaySeconds) \div 3600)
    \o TwoDigits((t % 3600) \div 60)
    \o TwoDigits(t % 60)

\* scanner.py 252: f"scan_{ts}.csv"
dated_name(ts) == <<"s", "c", "a", "n", "_">> \o ts \o <<".", "c", "s", "v">>

\* scanner.py 117: ^scan_\d{8}_\d{6}\.csv$
pattern_match(n) ==
    /\ Len(n) = 24
    /\ SubSeq(n, 1, 5) = <<"s", "c", "a", "n", "_">>
    /\ \A i \in 6..13 : IsDigit(n[i])
    /\ n[14] = "_"
    /\ \A i \in 15..20 : IsDigit(n[i])
    /\ SubSeq(n, 21, 24) = <<".", "c", "s", "v">>

\* scanner.py 124: the name cleanup passes over.
kept_name(cfg) == LATEST_CSV_NAME

\* A cleanup that also unlinks the files whose mtime is the cutoff itself.
unlinked_at_cutoff(files, n, cfg, t) ==
    /\ files[n].kind = "file"
    /\ n # kept_name(cfg)
    /\ pattern_match(n)
    /\ files[n].mtime <= t - cfg.retention_days * DaySeconds

\* scanner.py 120-133: whether cleanup unlinks entry n of the directory.
unlinked(files, n, cfg, t) ==
    /\ files[n].kind = "file"
    /\ n # kept_name(cfg)
    /\ pattern_match(n)
    /\ files[n].mtime < t - cfg.retention_days * DaySeconds

\* scanner.py 115-133: the directory after cleanup_old_outputs at clock t.
cleanup_old_outputs(files, cfg, t) ==
    [n \in {m \in DOMAIN files : ~unlinked(files, m, cfg, t)} |-> files[n]]

\* A throttle that waits until more than the interval has passed.
should_upload_after_interval(cfg, files, t) ==
    IF cfg.upload_interval_days = 0 THEN TRUE
    ELSE IF OSS_UPLOAD_MARKER \notin DOMAIN files THEN TRUE
    ELSE IF Len(files[OSS_UPLOAD_MARKER].data) # 1 THEN TRUE
    ELSE t - files[OSS_UPLOAD_MARKER].data[1] > cfg.upload_interval_days * DaySeconds

\* scanner.py 144-159; the marker file holds <<ts>>, or text float() rejects.
should_upload_to_oss(cfg, files, t) ==
    IF cfg.upload_interval_days = 0 THEN TRUE
    ELSE IF OSS_UPLOAD_MARKER \notin DOMAIN files THEN TRUE
    ELSE IF Len(files[OSS_UPLOAD_MARKER].data) # 1 THEN TRUE
    ELSE t - files[OSS_UPLOAD_MARKER].data[1] >= cfg.upload_interval_days * DaySeconds

\* scanner.py 101-110: the header row, then one row per record.
csv(rs) == <<[type |-> "header", root_path |-> <<>>, full_path |-> <<>>, name |-> <<>>]>> \o rs

\* open(..., "w") / write_bytes / write_text at clock t: the file n with data.
write_file(files, n, data, t) ==
    [m \in DOMAIN files \cup {n} |->
        IF m = n THEN [kind |-> "file", data |-> data, mtime |-> t] ELSE files[m]]

\* An option that defaults to False where it should default to True.
ignore_missing_default_false(cfg) ==
    IF "ignore_missing_path" \in DOMAIN cfg THEN cfg.ignore_missing_path ELSE FALSE

\* scanner.py 238: options.get("ignore_missing_path", True)
ignore_missing_path(cfg) ==
    IF "ignore_missing_path" \in DOMAIN cfg THEN cfg.ignore_missing_path ELSE TRUE

\* root.exists(), scanner.py 236
exists(f, root) == <<>> \in DOMAIN f[root]

\* scanner.py 237: the message of the RuntimeError for a missing root.
missing_msg(root) ==
    IF root = <<NData, NA>> THEN "path does not exist: /data/a"
    ELSE IF root = <<NData, NB>> THEN "path does not exist: /data/b"
    ELSE "path does not exist"

\* scanner.py 234-246: the rows of the roots that exist, in order.
RECURSIVE scan_roots(_, _, _)
scan_roots(f, rs, follow) ==
    IF rs = <<>> THEN <<>>
    ELSE (IF exists(f, Head(rs)) THEN scan_root(f[Head(rs)], Head(rs), follow) ELSE <<>>)
         \o scan_roots(f, Tail(rs), follow)

\* The position of runner r, and the step to position v.
Pc(r) == IF r = Sched THEN sched.pc ELSE run[r]
Goto(r, v) ==
    /\ run' = IF r = Sched THEN run ELSE [run EXCEPT ![r] = v]
    /\ sched' = IF r = Sched THEN [sched EXCEPT !.pc = v] ELSE sched

\* Where runner r goes on when its body returns: out of `with scan_lock` for
\* a scan job, back to run_action for the other jobs, idle for the scheduler.
AfterReturn(r) ==
    IF r = Sched THEN "idle"
    ELSE IF req[r].name = "scan" THEN "release" ELSE "record_success"

\* scan_task raises e in runner r: a job's run_action will record it, the
\* scheduler library logs it.
ScanRaise(r, e) ==
    /\ Goto(r, IF r = Sched THEN "idle" ELSE "release")
    /\ exc' = IF r = Sched THEN exc ELSE [exc EXCEPT ![r] = e]
    /\ loc' = [loc EXCEPT ![r] = NoLocals]

\* The body of runner r returns; its locals are gone.
BodyReturn(r) ==
    /\ Goto(r, AfterReturn(r))
    /\ loc' = [loc EXCEPT ![r] = NoLocals]

\* The positions inside scan_task.
ScanPcs == {"scan_task", "write_csv", "read_bytes", "write_latest", "retention",
            "upload", "put", "mark"}
\* The positions inside any action body.
BodyPcs == ScanPcs \cup {"action_cleanup", "action_upload_latest"}

\* The file systems at start: every root is an empty directory, or /data/b
\* does not exist.
StartFs ==
    { [r \in {<<NData, NA>>, <<NData, NB>>} |->
          IF r = <<NData, NB>> THEN b ELSE EmptyDir] : b \in {EmptyDir, Missing} }

\* The configurations and file systems that behave differently: the upload
\* interval is read only when the upload is enabled, ignore_missing_path
\* only when a root is missing.
Deployments ==
    { d \in [config : Configs, fs : StartFs] :
        /\ d.config.oss_enabled \/ d.config.upload_interval_days = 0
        /\ d.config.ignore_missing_path \/ \E r \in DOMAIN d.fs : ~exists(d.fs, r) }

InitPipe ==
    /\ \E d \in Deployments : config = d.config /\ fs = d.fs
    /\ now = 0
    /\ out_dir = [exists |-> FALSE, files |-> <<>>]
    /\ loc = [r \in Runners |-> NoLocals]
    /\ InitExec /\ PathsOff /\ WalkOff /\ CleanupOff

\* scan_task, scanner.py 225-246: resolve the roots and walk each of them.
scan_walk(r) ==
    /\ Pc(r) = "scan_task"
    /\ LET rs == deduplicate_parent_paths(normalize_paths(config.paths))
           gone == {i \in DOMAIN rs : ~exists(fs, rs[i])}
       IN IF gone # {} /\ ~ignore_missing_path(config)
          THEN ScanRaise(r, missing_msg(rs[CHOOSE i \in gone : \A k \in gone : i <= k]))
          ELSE /\ loc' = [loc EXCEPT ![r] =
                            [NoLocals EXCEPT !.rows = scan_roots(fs, rs, config.follow_symlinks)]]
               /\ Goto(r, "write_csv")
               /\ exc' = exc
    /\ UNCHANGED <<jobs, req, scan_lock, config, now, fs, out_dir, pathVars, walkVars, cleanup_call>>

\* scan_task, scanner.py 248-253: name the dated file after the clock, make
\* the output directory, write the rows; or the write fails.
scan_write_csv(r) ==
    /\ Pc(r) = "write_csv"
    /\ \/ /\ out_dir' = [exists |-> TRUE,
                         files |-> write_file(out_dir.files, dated_name(strftime(now)),
                                              csv(loc[r].rows), now)]
          /\ loc' = [loc EXCEPT ![r].output_file = dated_name(strftime(now))]
          /\ Goto(r, "read_bytes")
          /\ exc' = exc
       \/ /\ ScanRaise(r, "write failed")
          /\ out_dir' = out_dir
    /\ UNCHANGED <<jobs, req, scan_lock, config, now, fs, pathVars, walkVars, cleanup_call>>

\* scan_task, scanner.py 256: output_file.read_bytes()
scan_read_bytes(r) ==
    /\ Pc(r) = "read_bytes"
    /\ IF loc[r].output_file \in DOMAIN out_dir.files
       THEN /\ loc' = [loc EXCEPT ![r].buf = out_dir.files[loc[r].output_file].data]
            /\ Goto(r, "write_latest")
            /\ exc' = exc
       ELSE ScanRaise(r, "no such file")
    /\ UNCHANGED <<jobs, req, scan_lock, config, now, fs, out_dir, pathVars, walkVars, cleanup_call>>

\* scan_task, scanner.py 255-256: latest_csv.write_bytes(...); or it fails.
scan_write_latest(r) ==
    /\ Pc(r) = "write_latest"
    /\ \/ /\ out_dir' = [out_dir EXCEPT !.files =
                            write_file(out_dir.files, config.latest_filename, loc[r].buf, now)]
          /\ Goto(r, "retention")
          /\ UNCHANGED <<exc, loc>>
       \/ /\ ScanRaise(r, "write failed")
          /\ out_dir' = out_dir
    /\ UNCHANGED <<jobs, req, scan_lock, config, now, fs, pathVars, walkVars, cleanup_call>>

\* A retention step that calls cleanup_old_outputs whatever retention.days is.
scan_retention_always(r) ==
    /\ Pc(r) = "retention"
    /\ out_dir' = [out_dir EXCEPT !.files = cleanup_old_outputs(out_dir.files, config, now)]
    /\ Goto(r, "upload")
    /\ UNCHANGED <<jobs, req, exc, scan_lock, config, now, fs, loc, pathVars, walkVars, cleanup_call>>

\* scan_task, scanner.py 261-263: cleanup when retention.days is set.
scan_retention(r) ==
    /\ Pc(r) = "retention"
    /\ out_dir' = IF config.retention_days # 0
                  THEN [out_dir EXCEPT !.files = cleanup_old_outputs(out_dir.files, config, now)]
                  ELSE out_dir
    /\ Goto(r, "upload")
    /\ UNCHANGED <<jobs, req, exc, scan_lock, config, now, fs, loc, pathVars, walkVars, cleanup_call>>

\* action_cleanup, main.py 69-75: nothing when retention.days is not set;
\* iterdir raises when the output directory does not exist.
cleanup_run(j) ==
    /\ j # Sched
    /\ run[j] = "action_cleanup"
    /\ IF config.retention_days = 0
       THEN /\ run' = [run EXCEPT ![j] = "record_success"]
            /\ UNCHANGED <<exc, out_dir>>
       ELSE IF ~out_dir.exists
       THEN /\ run' = [run EXCEPT ![j] = "record_error"]
            /\ exc' = [exc EXCEPT ![j] = "no such directory"]
            /\ out_dir' = out_dir
       ELSE /\ run' = [run EXCEPT ![j] = "record_success"]
            /\ out_dir' = [out_dir EXCEPT !.files = cleanup_old_outputs(out_dir.files, config, now)]
            /\ exc' = exc
    /\ UNCHANGED <<jobs, req, scan_lock, sched, config, now, fs, loc, pathVars, walkVars, cleanup_call>>

\* upload_latest_csv_to_oss, scanner.py 168-178: the checks before the put.
upload_check(r) ==
    /\ Pc(r) \in {"upload", "action_upload_latest"}
    /\ IF /\ config.oss_enabled
          /\ config.latest_filename \in DOMAIN out_dir.files
          /\ should_upload_to_oss(config, out_dir.files, now)
       THEN Goto(r, "put") /\ loc' = loc
       ELSE BodyReturn(r)
    /\ UNCHANGED <<jobs, req, exc, scan_lock, config, now, fs, out_dir, pathVars, walkVars, cleanup_call>>

\* An upload step that stamps the marker whether the put succeeded or not.
upload_put_marking_failures(r) ==
    /\ Pc(r) = "put"
    /\ \/ /\ config.latest_filename \in DOMAIN out_dir.files
          /\ Goto(r, "mark")
          /\ UNCHANGED <<loc, out_dir>>
       \/ /\ BodyReturn(r)
          /\ out_dir' = [out_dir EXCEPT !.files =
                            write_file(out_dir.files, OSS_UPLOAD_MARKER, <<now>>, now)]
    /\ UNCHANGED <<jobs, req, exc, scan_lock, config, now, fs, pathVars, walkVars, cleanup_call>>

\* upload_latest_csv_to_oss, scanner.py 180-217: put_object_from_file sends
\* the latest file to the ObjectStore (whose content nothing here reads), or
\* fails (the except clause logs it and returns).
upload_put(r) ==
    /\ Pc(r) = "put"
    /\ \/ /\ config.latest_filename \in DOMAIN out_dir.files
          /\ Goto(r, "mark")
          /\ loc' = loc
       \/ BodyReturn(r)
    /\ UNCHANGED <<jobs, req, exc, scan_lock, config, now, fs, out_dir, pathVars, walkVars, cleanup_call>>

\* mark_oss_upload, scanner.py 162-164 (called at 214)
upload_mark(r) ==
    /\ Pc(r) = "mark"
    /\ out_dir' = [out_dir EXCEPT !.files =
                      write_file(out_dir.files, OSS_UPLOAD_MARKER, <<now>>, now)]
    /\ BodyReturn(r)
    /\ UNCHANGED <<jobs, req, exc, scan_lock, config, now, fs, pathVars, walkVars, cleanup_call>>

\* A second passes.
tick_second ==
    /\ now % DaySeconds < MaxSecs
    /\ now' = now + 1
    /\ UNCHANGED <<execVars, config, fs, out_dir, loc, pathVars, walkVars, cleanup_call>>

\* A day passes, while no action body is running: no run lasts a day.
tick_day ==
    /\ now \div DaySeconds < MaxDays
    /\ \A r \in Runners : Pc(r) \notin BodyPcs
    /\ now' = now + DaySeconds
    /\ UNCHANGED <<execVars, config, fs, out_dir, loc, pathVars, walkVars, cleanup_call>>

\* The number of entries in the scanned roots.
FsEntries == Len(fs[<<NData, NA>>][<<>>])

\* A file appears in a scanned root.
fs_create(n) ==
    /\ FsEntries < MaxFsEntries
    /\ \A i \in DOMAIN fs[<<NData, NA>>][<<>>] : fs[<<NData, NA>>][<<>>][i].name # n
    /\ fs' = [fs EXCEPT ![<<NData, NA>>] =
                 [d \in {<<>>} |-> Append(fs[<<NData, NA>>][<<>>], [name |-> n, kind |-> "file"])]]
    /\ UNCHANGED <<execVars, config, now, out_dir, loc, pathVars, walkVars, cleanup_call>>

NextPipe ==
    \/ \E j \in 1..MaxPipeJobs, name \in ActionNames, mode \in Modes :
          trigger_action(j, name, mode)
    \/ \E j \in JobIds : trigger_record_queued(j)
    \/ \E j \in JobIds : trigger_return_sync(j)
    \/ \E j \in JobIds : run_record_running(j)
    \/ \E j \in JobIds : action_scan_acquire(j)
    \/ \E j \in JobIds : action_scan_release(j)
    \/ \E j \in JobIds : run_record_success(j)
    \/ \E j \in JobIds : run_record_error(j)
    \/ sched_fire
    \/ \E r \in Runners : scan_walk(r)
    \/ \E r \in Runners : scan_write_csv(r)
    \/ \E r \in Runners : scan_read_bytes(r)
    \/ \E r \in Runners : scan_write_latest(r)
    \/ \E r \in Runners : scan_retention(r)
    \/ \E j \in JobIds : cleanup_run(j)
    \/ \E r \in Runners : upload_check(r)
    \/ \E r \in Runners : upload_put(r)
    \/ \E r \in Runners : upload_mark(r)
    \/ tick_second
    \/ tick_day
    \/ \E n \in {NX} : fs_create(n)

SpecPipe == InitPipe /\ [][NextPipe]_vars

\* Runner r is running scan_task (not the body of another action).
IsScanRunner(r) == r = Sched \/ req[r].name = "scan"

\* C9: whenever a scan run completes successfully (it returns from the
\* upload step, the last of scan_task), the dated file that run wrote and the
\* latest file exist and have the same content at that moment.
C9_DatedEqualsLatest ==
    [][\A r \in Runners :
          (/\ IsScanRunner(r)
           /\ Pc(r) \in {"upload", "put", "mark"}
           /\ (IF r = Sched THEN sched'.pc ELSE run'[r]) \in {"idle", "release"})
          => /\ loc[r].output_file \in DOMAIN out_dir'.files
             /\ config.latest_filename \in DOMAIN out_dir'.files
             /\ out_dir'.files[loc[r].output_file].data
                    = out_dir'.files[config.latest_filename].data]_vars

\* C10: no step of retention cleanup (the retention step of a scan run, a
\* "cleanup" action) deletes the latest file, whatever its configured name.
C10_CleanupKeepsLatest ==
    [][\A r \in Runners :
          (Pc(r) \in {"retention", "action_cleanup"} /\ Pc(r)' # Pc(r))
          => (config.latest_filename \in DOMAIN out_dir.files
                => config.latest_filename \in DOMAIN out_dir'.files)]_vars

\* ------------------------------------------------ RetentionManager alone
\* Number of entries of the output directory at a cleanup call.
MaxOutEntries == 2

\* Names an output directory holds: two dated outputs, the latest file, the
\* upload marker, a file of another program.
DatedName == dated_name(strftime(0))
NotesName == <<"n", "o", "t", "e", "s", ".", "t", "x", "t">>
OutNames == {DatedName, DatedLikeName, LATEST_CSV_NAME, OSS_UPLOAD_MARKER, NotesName}
\* f.is_file() or not, scanner.py 120
OutKinds == {"file", "dir"}
\* f.stat().st_mtime, and datetime.now() at the call: the cutoff of the
\* largest keep_days falls among the mtimes.
OutMtimes == 0..(MaxSecs + 2)
CleanupNows == {MaxDays * DaySeconds + 1 + s : s \in 0..MaxSecs}

OutEntries == [kind : OutKinds, data : {<<>>}, mtime : OutMtimes]
OutDirs ==
    UNION {[S -> OutEntries] : S \in {T \in SUBSET OutNames : Cardinality(T) <= MaxOutEntries}}

\* scanner.py 118-133: the loop over output_dir.iterdir(), counting in
\* `removed` the entries it unlinks.
RECURSIVE cleanup_loop(_, _, _, _, _)
cleanup_loop(todo, files, cfg, t, removed) ==
    IF todo = {} THEN removed
    ELSE LET f == CHOOSE n \in todo : TRUE
         IN cleanup_loop(todo \ {f}, files, cfg, t,
                         IF unlinked(files, f, cfg, t) THEN removed + 1 ELSE removed)

\* scanner.py 135-139: the count the call reports in its log line.
removed_logged(files, cfg, t) == cleanup_loop(DOMAIN files, files, cfg, t, 0)

InitCleanup ==
    /\ cleanup_call \in [output_dir : OutDirs, keep_days : 1..MaxDays, now : CleanupNows,
                         removed : {0}, pc : {"call"}]
    /\ InitExec /\ PathsOff /\ WalkOff /\ PipeOff

\* cleanup_old_outputs(output_dir, keep_days), scanner.py 115-139
cleanup_old_outputs_call ==
    /\ cleanup_call.pc = "call"
    /\ LET cfg == [retention_days |-> cleanup_call.keep_days]
       IN cleanup_call' =
            [cleanup_call EXCEPT
                !.output_dir = cleanup_old_outputs(cleanup_call.output_dir, cfg, cleanup_call.now),
                !.removed = removed_logged(cleanup_call.output_dir, cfg, cleanup_call.now),
                !.pc = "returned"]
    /\ UNCHANGED <<execVars, pathVars, walkVars, pipeVars>>

NextCleanup == cleanup_old_outputs_call

SpecCleanup == InitCleanup /\ [][NextCleanup]_vars

\* C11: for keep_days = N > 0 and a cleanup call at time now, a plain file
\* whose name matches the dated pattern is deleted if and only if its mtime is
\* strictly before now - N days (at the cutoff it is kept); entries whose name
\* does not match and entries that are not files stay, unchanged; the count
\* the call reports is the number of files it deleted.
C11_CleanupDeletesExpired ==
    [][(cleanup_call.pc = "call" /\ cleanup_call'.pc = "returned") =>
          LET before == cleanup_call.output_dir
              after == cleanup_call'.output_dir
              cutoff == cleanup_call.now - cleanup_call.keep_days * DaySeconds
              deleted == DOMAIN before \ DOMAIN after
          IN /\ cleanup_call.keep_days > 0
             /\ DOMAIN after \subseteq DOMAIN before
             /\ \A n \in DOMAIN before :
                   /\ (before[n].kind = "file" /\ pattern_match(n))
                         => (n \in deleted <=> before[n].mtime < cutoff)
                   /\ (before[n].kind # "file" \/ ~pattern_match(n)) => n \notin deleted
                   /\ n \notin deleted => after[n] = before[n]
             /\ cleanup_call'.removed = Cardinality(deleted)]_vars

\* C11's case: a call has deleted one dated file and kept another dated file
\* whose mtime is the cutoff itself.
C11_Witness ==
    /\ cleanup_call # <<>>
    /\ cleanup_call.pc = "returned"
    /\ cleanup_call.removed = 1
    /\ \E n \in DOMAIN cleanup_call.output_dir :
          /\ pattern_match(n)
          /\ cleanup_call.output_dir[n].kind = "file"
          /\ cleanup_call.output_dir[n].mtime
                = cleanup_call.now - cleanup_call.keep_days * DaySeconds

\* ------------------------------------------- one request, step by step
\* The job id of the one request.
RunJob == 1

\* What float() makes of the marker's text: <<>> is text it rejects, <<t>> the
\* time t.
MarkerTexts == {<<>>} \cup {<<t>> : t \in 0..(MaxSecs + 1)}

\* The entries an output directory can hold under each name when the request
\* arrives: an earlier dated output, the latest file, the upload marker.
RunFileOf(n, text) ==
    [kind |-> "file", data |-> IF n = OSS_UPLOAD_MARKER THEN text ELSE csv(<<>>), mtime |-> 0]
RunFiles ==
    {[n \in (IF dated THEN {DatedName} ELSE {})
              \cup (IF latest THEN {LATEST_CSV_NAME} ELSE {})
              \cup (IF marker # <<>> THEN {OSS_UPLOAD_MARKER} ELSE {})
         |-> RunFileOf(n, IF marker # <<>> THEN marker[1] ELSE <<>>)] :
        dated \in BOOLEAN, latest \in BOOLEAN,
        marker \in {<<>>} \cup {<<x>> : x \in MarkerTexts}}
RunDirs ==
    {[exists |-> FALSE, files |-> <<>>]} \cup {[exists |-> TRUE, files |-> f] : f \in RunFiles}

\* The scanned roots: /data/a holds one file, /data/b is empty or missing.
RunFs ==
    { [f EXCEPT ![<<NData, NA>>] = [d \in {<<>>} |-> <<[name |-> NX, kind |-> "file"]>>]] :
        f \in StartFs }

\* The configurations: those of Deployments that name the latest file
\* scan_latest.csv, and the same without the option ignore_missing_path.
RunConfigs ==
    LET set == {c \in Configs : c.latest_filename = LATEST_CSV_NAME
                                /\ (c.oss_enabled \/ c.upload_interval_days = 0)}
    IN set \cup {[k \in DOMAIN c \ {"ignore_missing_path"} |-> c[k]] :
                    c \in {d \in set : d.ignore_missing_path}}

InitRun ==
    /\ \E c \in RunConfigs, f \in RunFs, d \in RunDirs :
          /\ ("ignore_missing_path" \in DOMAIN c /\ c.ignore_missing_path)
                \/ \E r \in DOMAIN f : ~exists(f, r)
          /\ config = c /\ fs = f /\ out_dir = d
    /\ now = DaySeconds
    /\ loc = [r \in Runners |-> NoLocals]
    /\ InitExec /\ PathsOff /\ WalkOff /\ CleanupOff

NextRun ==
    \/ \E name \in ActionNames, mode \in Modes : trigger_action(RunJob, name, mode)
    \/ \E j \in JobIds : trigger_record_queued(j)
    \/ \E j \in JobIds : trigger_return_sync(j)
    \/ \E j \in JobIds : run_record_running(j)
    \/ \E j \in JobIds : action_scan_acquire(j)
    \/ \E j \in JobIds : action_scan_release(j)
    \/ \E j \in JobIds : run_record_success(j)
    \/ \E j \in JobIds : run_record_error(j)
    \/ \E r \in Runners : scan_walk(r)
    \/ \E r \in Runners : scan_write_csv(r)
    \/ \E r \in Runners : scan_read_bytes(r)
    \/ \E r \in Runners : scan_write_latest(r)
    \/ \E r \in Runners : scan_retention(r)
    \/ \E j \in JobIds : cleanup_run(j)
    \/ \E r \in Runners : upload_check(r)
    \/ \E r \in Runners : upload_put(r)
    \/ \E r \in Runners : upload_mark(r)
    \/ tick_second

SpecRun == InitRun /\ [][NextRun]_vars

\* The runner r leaves the position it is at.
Leaves(r) == Pc(r)' # Pc(r)

\* C12: at the checks that open the upload step (of a scan run or of an
\* upload_latest action), with the upload enabled and the latest file present
\* the put is attempted if and only if no interval is configured, or the
\* marker is absent, or its text is not a number, or now - marker is at least
\* interval_days * 86400 seconds; with the upload disabled or the latest file
\* absent the put is not attempted; and whenever it is not attempted the step
\* returns normally, raising nothing and changing no file.
C12_UploadAttemptedIffDue ==
    [][\A r \in Runners :
          (Pc(r) \in {"upload", "action_upload_latest"} /\ Leaves(r)) =>
             LET files == out_dir.files
                 ready == config.oss_enabled /\ config.latest_filename \in DOMAIN files
                 due == \/ config.upload_interval_days = 0
                        \/ OSS_UPLOAD_MARKER \notin DOMAIN files
                        \/ Len(files[OSS_UPLOAD_MARKER].data) # 1
                        \/ now - files[OSS_UPLOAD_MARKER].data[1]
                              >= config.upload_interval_days * DaySeconds
             IN /\ ready => (Pc(r)' = "put" <=> due)
                /\ ~ready => Pc(r)' # "put"
                /\ Pc(r)' # "put" =>
                      /\ Pc(r)' = AfterReturn(r)
                      /\ exc' = exc
                      /\ out_dir' = out_dir]_vars

\* C12's case: an attempt (the runner is at the put) made exactly
\* interval_days * 86400 seconds after the time the marker holds.
C12_Witness ==
    \E r \in Runners :
        /\ Pc(r) = "put"
        /\ config.upload_interval_days # 0
        /\ OSS_UPLOAD_MARKER \in DOMAIN out_dir.files
        /\ Len(out_dir.files[OSS_UPLOAD_MARKER].data) = 1
        /\ now - out_dir.files[OSS_UPLOAD_MARKER].data[1]
              = config.upload_interval_days * DaySeconds

\* The marker file of an output directory: <<its entry>>, or <<>> when absent.
MarkerOf(dir) ==
    IF OSS_UPLOAD_MARKER \in DOMAIN dir.files THEN <<dir.files[OSS_UPLOAD_MARKER]>> ELSE <<>>

\* C13: the marker file changes only in the step that follows a successful
\* put (the position "mark" is entered from the put alone), and that step
\* writes the current time; the step of a put that fails and the step of an
\* upload that is skipped leave the marker as it was, present or absent; and
\* an upload that is due stays due through every step but that of a
\* successful put's marker write.
C13_MarkerOnlyAfterPut ==
    [][/\ MarkerOf(out_dir') # MarkerOf(out_dir) =>
             \E r \in Runners :
                 /\ Pc(r) = "mark" /\ Leaves(r)
                 /\ MarkerOf(out_dir') = <<[kind |-> "file", data |-> <<now>>, mtime |-> now]>>
       /\ \A r \in Runners :
             /\ (Pc(r)' = "mark" /\ Leaves(r)) => Pc(r) = "put"
             /\ (Pc(r) = "put" /\ Leaves(r) /\ Pc(r)' # "mark") =>
                   MarkerOf(out_dir') = MarkerOf(out_dir)
             /\ (Pc(r) \in {"upload", "action_upload_latest"} /\ Leaves(r) /\ Pc(r)' # "put") =>
                   MarkerOf(out_dir') = MarkerOf(out_dir)
       /\ (/\ \A r \in Runners : Pc(r) # "mark"
           /\ should_upload_to_oss(config, out_dir.files, now))
             => should_upload_to_oss(config', out_dir'.files, now')]_vars

\* C13's case: an upload_latest job is over, it raised nothing, the upload is
\* enabled with an interval and the latest file is there, and the marker still
\* holds a time that makes the upload due: the job's put was attempted and
\* failed, and the marker is as it was.
C13_Witness ==
    /\ Finished(RunJob)
    /\ req[RunJob].name = "upload_latest"
    /\ exc[RunJob] = NoExc
    /\ config.oss_enabled /\ config.upload_interval_days # 0
    /\ config.latest_filename \in DOMAIN out_dir.files
    /\ OSS_UPLOAD_MARKER \in DOMAIN out_dir.files
    /\ out_dir.files[OSS_UPLOAD_MARKER].data = <<0>>
    /\ should_upload_to_oss(config, out_dir.files, now)

\* The elements of a sequence.
Range(q) == {q[i] : i \in DOMAIN q}

\* C14: when a resolved root does not exist at the walk of a scan run: with
\* ignore_missing_path true or not set, nothing is raised, the run goes on to
\* write its records, and these are the records of the roots that exist; with
\* ignore_missing_path false the run raises an error whose message names a
\* missing root, leaves scan_task at once with the output directory as it was,
\* and the job passes through no position of the writes, the retention
\* cleanup or the upload and changes no file before or after the raise.
C14_MissingRoot ==
    [][LET rs == deduplicate_parent_paths(normalize_paths(config.paths))
           gone == {i \in DOMAIN rs : ~exists(fs, rs[i])}
           there == DOMAIN rs \ gone
           found(i) == Range(scan_root(fs[rs[i]], rs[i], config.follow_symlinks))
           ignore == "ignore_missing_path" \notin DOMAIN config \/ config.ignore_missing_path
           msgs == {missing_msg(rs[i]) : i \in gone}
       IN /\ \A r \in Runners :
                (Pc(r) = "scan_task" /\ Leaves(r) /\ gone # {}) =>
                    IF ignore
                    THEN /\ Pc(r)' = "write_csv"
                         /\ exc' = exc
                         /\ Range(loc'[r].rows) = UNION {found(i) : i \in there}
                    ELSE /\ Pc(r)' = (IF r = Sched THEN "idle" ELSE "release")
                         /\ r # Sched => exc'[r] \in msgs
                         /\ out_dir' = out_dir
          /\ \A j \in JobIds :
                /\ (req[j].name = "scan" /\ run[j] \in {"record_running", "acquire"})
                      => (run'[j] # run[j] => out_dir' = out_dir)
                /\ exc[j] \in msgs =>
                      /\ run[j] \in {"release", "record_error", "done"}
                      /\ run'[j] \in {"release", "record_error", "done"}
                      /\ run'[j] # run[j] => out_dir' = out_dir]_vars

\* C14's case: /data/b is missing, ignore_missing_path is not set, and the
\* run has gone on to the write with the records of /data/a.
C14_Witness ==
    \E r \in Runners :
        /\ Pc(r) = "write_csv"
        /\ "ignore_missing_path" \notin DOMAIN config
        /\ ~exists(fs, <<NData, NB>>)
        /\ loc[r].rows # <<>>

\* C15: a synchronous trigger has answered only when run_action is through,
\* and the record it answers with has status "success" or "error"; an
\* asynchronous trigger (the mode taken when the request names none) answers
\* {id, status: "queued"}, whatever the position of the action, and the id it
\* answers with is in the registry from then on.
C15_TriggerResponses ==
    \A j \in JobIds :
        req[j].pc = "returned" =>
            IF req[j].mode = "sync"
            THEN run[j] = "done" /\ req[j].resp \in Terminal
            ELSE /\ req[j].resp = "queued"
                 /\ jobs[j] # NoJob /\ jobs[j].id = j

\* C15's case: a synchronous trigger has answered with a terminal record, and
\* an asynchronous trigger has answered while its action is still inside
\* scan_task.
C15_Witness ==
    \E i, j \in JobIds :
        /\ req[i].pc = "returned" /\ req[i].mode = "sync" /\ req[i].resp \in Terminal
        /\ req[j].pc = "returned" /\ req[j].mode = "async"
        /\ run[j] = "scan_task" /\ scan_lock = j /\ jobs[j].status = "running"

\* The put of job j's upload step failed: the job's body is over and raised
\* nothing, the upload is enabled and the latest file is there, yet there is
\* no marker. (With no marker at the checks the upload was due, so the put was
\* attempted; had it succeeded the marker would be there.)
PutFailed(j) ==
    /\ req[j].name \in {"scan", "upload_latest"}
    /\ run[j] \in {"record_success", "done"}
    /\ exc[j] = NoExc
    /\ config.oss_enabled
    /\ config.latest_filename \in DOMAIN out_dir.files
    /\ OSS_UPLOAD_MARKER \notin DOMAIN out_dir.files

\* C16: a scan job whose walk and writes succeeded and whose put failed, and
\* an upload_latest job whose put failed, end with status "success": once
\* such a job is over, the registry shows "success" for it.
C16_UploadFailureKeepsSuccess ==
    \A j \in JobIds :
        (Finished(j) /\ PutFailed(j)) => jobs[j].status = "success"

\* C17: when the write of the dated file or of the latest file fails in a
\* scan job, the run leaves scan_task at that step with the output directory
\* as it was; from then on the job is at no position of a write (no retry), of
\* the retention cleanup or of the upload, the marker does not change, and
\* once the job is over the registry shows it as "error" with the failure's
\* message.
C17_WriteFailure ==
    [][\A j \in JobIds :
          /\ (run[j] \in {"write_csv", "write_latest"} /\ exc'[j] = "write failed") =>
                (run'[j] = "release" /\ out_dir' = out_dir)
          /\ exc'[j] = "write failed" =>
                /\ run'[j] \in {"release", "record_error", "done"}
                /\ MarkerOf(out_dir') = MarkerOf(out_dir)
                /\ Finished(j)' =>
                      (jobs'[j].status = "error" /\ jobs'[j].error = "write failed")]_vars


\* C19: with retention.days not set or zero, the retention step of a scan run
\* and the body of a "cleanup" action leave the output directory as it is,
\* whatever the names and the modification times of its files (and neither
\* raises).
C19_NoRetentionNoDeletion ==
    [][\A r \in Runners :
          (Pc(r) \in {"retention", "action_cleanup"} /\ Leaves(r)
           /\ config.retention_days = 0)
          => (out_dir' = out_dir /\ exc' = exc)]_vars

\* C19's case: retention.days is not set, and a run is past its retention
\* step (a cleanup job past its body) with a dated file in the directory that
\* is older than the clock, which a cleanup would have found expired.
C19_Witness ==
    /\ config.retention_days = 0
    /\ \E j \in JobIds :
          \/ run[j] = "upload"
          \/ req[j].name = "cleanup" /\ run[j] = "record_success"
    /\ \E n \in DOMAIN out_dir.files :
          /\ pattern_match(n)
          /\ out_dir.files[n].kind = "file"
          /\ out_dir.files[n].mtime < now

\* ------------------------------------------------ executor: progress
\* The steps of the thread that runs run_action for job j.
ThreadStep(j) ==
    \/ run_record_running(j)
    \/ action_scan_acquire(j)
    \/ action_scan_task(j)
    \/ action_scan_release(j)
    \/ action_cleanup(j)
    \/ action_upload_latest(j)
    \/ run_record_success(j)
    \/ run_record_error(j)

\* Every thread that can take a step takes one in the end, and so every
\* pipeline run terminates: a thread blocked in scan_lock.acquire() goes on
\* once the lock stays free.
SpecLive == Init /\ [][Next]_vars /\ \A j \in JobIds : WF_vars(ThreadStep(j))

\* C18: every scan job waiting for scan_lock enters scan_task in the end,
\* given that every pipeline run terminates; and a job whose action_scan is
\* over, by return or by raise, does not hold the lock.
C18_WaitingScanEnters ==
    /\ \A j \in JobIds : (run[j] = "acquire") ~> (run[j] = "scan_task")
    /\ [](\A j \in JobIds :
            run[j] \in {"record_success", "record_error", "done"} => scan_lock # j)

\* C18's case: a scan job waits for the lock while the holder's scan_task has
\* raised and the holder is about to leave `with scan_lock`.
C18_Witness ==
    \E i, j \in JobIds :
        /\ i # j
        /\ run[i] = "release" /\ exc[i] # NoExc /\ scan_lock = i
        /\ run[j] = "acquire"

\* The steps of job j's thread other than the end of scan_task.
OutsideScanTask(j) ==
    \/ run_record_running(j)
    \/ action_scan_acquire(j)
    \/ action_scan_release(j)
    \/ action_cleanup(j)
    \/ action_upload_latest(j)
    \/ run_record_success(j)
    \/ run_record_error(j)

\* Every thread that can take a step takes one in the end, but a scan_task
\* that has begun need never end.
SpecStall == Init /\ [][Next]_vars /\ \A j \in JobIds : WF_vars(OutsideScanTask(j))

\* Job j is a cleanup or upload_latest job inside its action body.
InOtherBody(j) == run[j] \in {"action_cleanup", "action_upload_latest"}

\* A scan job holds scan_lock inside scan_task.
ScanHoldsLock == \E i \in JobIds : scan_lock = i /\ run[i] = "scan_task"

\* C20: a cleanup or upload_latest job never waits for scan_lock: inside its
\* body it can always take its step, whoever holds the lock; and such a job
\* running its body while a scan job holds the lock inside scan_task reaches
\* "success" or "error" even when no scan_task ever ends.
C20_OthersNeverWait ==
    /\ [](\A j \in JobIds : InOtherBody(j) => ENABLED ThreadStep(j))
    /\ \A j \in JobIds :
          (InOtherBody(j) /\ ScanHoldsLock) ~> (jobs[j].status \in Terminal)

\* C20's case: a cleanup job and an upload_latest job are each reachable
\* inside their body while a scan job holds scan_lock inside scan_task; here,
\* the cleanup job, its record showing "running".
C20_Witness ==
    \E j \in JobIds :
        /\ run[j] = "action_cleanup" /\ jobs[j].status = "running"
        /\ ScanHoldsLock

====
